---- MODULE Spec2Model ----
(***************************************************************************)
(* State-machine model of the Vulkan pipeline cache                        *)
(* (src/video_core/renderer_vulkan/vk_pipeline_cache.cpp).                 *)
(*                                                                         *)
(* Spec      : the cache object (shader registry, graphics and compute     *)
(*             pipeline maps, the memoized last graphics pipeline) driven  *)
(*             by GetShaders, GetGraphicsPipeline, GetComputePipeline and  *)
(*             Unregister.  Unregister is modelled statement by statement  *)
(*             so that the order of scheduler.Finish() and the erases is   *)
(*             observable.                                                 *)
(* SizeSpec  : the pure function CalculateProgramSize applied to bounded   *)
(*             instruction buffers.                                        *)
(* CodeSpec  : GetShaderCode applied to bounded guest memory, with and     *)
(*             without a host pointer.                                     *)
(* DescSpec  : FillDescriptorLayout, FillDescriptorUpdateTemplateEntries   *)
(*             and the loop of DecompileShaders applied to bounded         *)
(*             resource manifests.                                         *)
(* AliasSpec : the cache when two GPU addresses map the same host memory   *)
(*             and no call throws.                                         *)
(***************************************************************************)
EXTENDS Integers, Sequences, FiniteSets, TLC

(***************************************************************************)
(* Bounds of the model                                                     *)
(***************************************************************************)
\* number of CachedShader objects alive at the same time
MaxUnits == 2
\* number of pipeline objects alive at the same time (graphics and compute)
MaxPipelines == 2
\* number of misses in which translation, generation or construction throws
MaxThrows == 1
\* number of instruction words appended after the header of a buffer
MaxTail == 6

(***************************************************************************)
(* Program constants                                                       *)
(***************************************************************************)
\* Maxwell::MaxShaderProgram: VertexA, VertexB, TesselationControl,
\* TesselationEval, Geometry, Fragment
MaxShaderProgram == 6
VertexA == 0
VertexB == 1
Fragment == 5
Programs == 0 .. (MaxShaderProgram - 1)

\* a null VKGraphicsPipeline* / an empty unique_ptr
NullPipeline == 0

(***************************************************************************)
(* Environment: GPU addresses, the memory manager and the registers        *)
(***************************************************************************)
\* GPU virtual addresses of shader programs used by the guest
Addrs == {1, 2, 3}

\* memory_manager.GetPointer: addresses 2 and 3 are two GPU mappings of the
\* same host memory
GetPointer(gpu_addr) == IF gpu_addr = 1 THEN 1 ELSE 2

HostPtrs == {GetPointer(a) : a \in Addrs}

\* memory_manager.GpuToCpuAddress (always resolves: ASSERT(cpu_addr))
GpuToCpuAddress(gpu_addr) == 100 + GetPointer(gpu_addr)

\* fixed-function state blobs, compared by value
FixedStates == {0, 1}

\* Register configurations of Maxwell3D: element p+1 is the code address of
\* shader program p, 0 when the program is not enabled.
RegConfigs ==
    { <<0, 1, 0, 0, 0, 2>>,
      <<0, 1, 0, 0, 0, 0>> }

\* compute keys requested by the guest
ComputeKey(a, w, s) == [shader |-> a, workgroup_size |-> w, shared_memory_size |-> s]
ComputeKeys ==
    { ComputeKey(2, <<1, 1, 1>>, 0), ComputeKey(2, <<8, 8, 1>>, 0),
      ComputeKey(2, <<1, 1, 1>>, 16) }

\* outcome of the fallible part of a miss: everything returns, the shader
\* translation (CachedShader's constructor) throws, or the code generation or
\* the pipeline constructor throws
Outcomes == {"ok", "translate_throws", "construct_throws"}

VARIABLES
    map_cache,              \* RasterizerCache: host pointer -> registered unit
    graphics_cache,         \* key -> owned VKGraphicsPipeline
    compute_cache,          \* key -> owned VKComputePipeline
    last_graphics_key,
    last_graphics_pipeline, \* address of a pipeline, NullPipeline when null
    ret,                    \* what the call that has just returned returned
    throws,                 \* how many misses have thrown so far
    unregistered,           \* whether Unregister has ever been called
    first_call,             \* per graphics key requested so far: the pipeline
                            \* the first call returned and the number of
                            \* compilations; kept until the first Unregister
                            \* or throw
    pc,                     \* position inside Unregister ("idle" outside it)
    shader_arg,             \* Unregister's argument
    finished,               \* Unregister's local
    it,                     \* entries the running loop has not visited yet
    cur,                    \* entry the iterator points at before erase
    finish_calls,           \* scheduler.Finish() calls made by this Unregister
    pre_graphics_cache,     \* graphics_cache when this Unregister began
    pre_compute_cache,      \* compute_cache when this Unregister began
    program,                \* SizeSpec: the instruction buffer
    is_compute,             \* SizeSpec: CalculateProgramSize's second argument
    size_pc,                \* SizeSpec: "build", "done" or "off"
    size_result,            \* SizeSpec: the value CalculateProgramSize returned
    block,                  \* CodeSpec: the words ReadBlockUnsafe copied
    code_host_ptr,          \* CodeSpec: GetShaderCode's host_ptr (0 when null)
    program_code,           \* CodeSpec: the code GetShaderCode returned
    layout,                 \* DescSpec: the last FillDescriptorLayout call
    template,               \* DescSpec: the last
                            \* FillDescriptorUpdateTemplateEntries call
    decompiled              \* DescSpec: the last DecompileShaders call

cacheVars == <<map_cache, graphics_cache,
               compute_cache, last_graphics_key, last_graphics_pipeline, ret,
               throws, unregistered, first_call, pc, shader_arg, finished, it, cur, finish_calls,
               pre_graphics_cache, pre_compute_cache>>
sizeVars == <<program, is_compute, size_pc, size_result>>
codeVars == <<block, code_host_ptr, program_code>>
descVars == <<layout, template, decompiled>>
vars == <<cacheVars, sizeVars, codeVars, descVars>>

(***************************************************************************)
(* Helpers on maps                                                         *)
(***************************************************************************)
EmptyMap == [k \in {} |-> 0]

\* std::unordered_map::try_emplace / operator= on the mapped value
MapPut(m, k, v) == [x \in (DOMAIN m) \cup {k} |-> IF x = k THEN v ELSE m[x]]

\* std::unordered_map::erase
MapErase(m, k) == [x \in (DOMAIN m) \ {k} |-> m[x]]

(***************************************************************************)
(* Shader units and the shader registry (RasterizerCache<Shader>)          *)
(***************************************************************************)
\* CachedShader's constructor.  id is the identity of the object: two units
\* are the same instance iff their ids are equal.
CachedShader(id, stage, gpu_addr, cpu_addr, host_ptr, main_offset) ==
    [id |-> id, stage |-> stage, gpu_addr |-> gpu_addr, cpu_addr |-> cpu_addr,
     host_ptr |-> host_ptr, main_offset |-> main_offset]

\* a null Shader (empty shared_ptr)
NullShader == CachedShader(0, 0, 0, 0, 0, 0)

\* RasterizerCache::TryGet(host_ptr)
TryGet(cache, host_ptr) == cache[host_ptr]

\* RasterizerCache::Register(shader): keyed by the unit's host pointer
Register(cache, shader) == [cache EXCEPT ![shader.host_ptr] = shader]

\* RasterizerCache::Unregister(shader): drops the entry at the unit's pointer
RegistryUnregister(cache, shader) == [cache EXCEPT ![shader.host_ptr] = NullShader]

\* gpu.regs.IsShaderConfigEnabled(index)
IsShaderConfigEnabled(r, index) == r[index + 1] # 0

\* GetShaderAddress(system, program)
GetShaderAddress(r, index) == r[index + 1]

\* GetStageFromProgram(std::size_t program)
GetStageFromProgram(index) == IF index = 0 THEN 0 ELSE index - 1

\* ShaderType::Compute
ComputeStage == 5

\* identities of the units at host_ptr some shared_ptr in the set S still owns
UnitIds(S, host_ptr) == {u.id : u \in {v \in S : v.host_ptr = host_ptr}} \ {0}

\* identity of a newly allocated unit: one no living unit has
\* (MaxUnits + 1 when the model's supply is exhausted)
NewUnitId(live) ==
    IF (1 .. MaxUnits) \ live = {} THEN MaxUnits + 1
    ELSE CHOOSE n \in (1 .. MaxUnits) \ live :
             \A m \in (1 .. MaxUnits) \ live : n <= m

\* mutation of NeedsNewShader: the lookup result is ignored
NeedsNewShader_Always(shader) == TRUE

\* "if (!shader)": a unit is constructed only when the registry has none
NeedsNewShader(shader) == shader = NullShader

\* The loop of GetShaders from position index on.  reg is the registry as the
\* earlier iterations left it, shaders the local array.
RECURSIVE GetShadersLoop(_, _, _, _)
GetShadersLoop(index, r, reg, shaders) ==
    IF index >= MaxShaderProgram
    THEN [map_cache |-> reg, shaders |-> shaders]
    ELSE IF ~IsShaderConfigEnabled(r, index)
    THEN GetShadersLoop(index + 1, r, reg, shaders)
    ELSE LET program_addr == GetShaderAddress(r, index)
             host_ptr == GetPointer(program_addr)
             shader == TryGet(reg, host_ptr)
         IN  IF NeedsNewShader(shader)
             THEN LET stage == GetStageFromProgram(index)
                      live == UnitIds({reg[p] : p \in DOMAIN reg}
                                        \cup {shaders[i] : i \in DOMAIN shaders},
                                      host_ptr)
                      new == CachedShader(NewUnitId(live), stage, program_addr,
                                          GpuToCpuAddress(program_addr),
                                          host_ptr, 10)
                  IN  GetShadersLoop(index + 1, r, Register(reg, new),
                                     [shaders EXCEPT ![index + 1] = new])
             ELSE GetShadersLoop(index + 1, r, reg,
                                 [shaders EXCEPT ![index + 1] = shader])

NoShaders == [i \in 1 .. MaxShaderProgram |-> NullShader]

\* The caller of the cache (the rasterizer's draw) asks GetShaders for the
\* units of the enabled programs and builds the graphics key from them: slot
\* p holds the unit's GPU address, 0 when the program is not enabled.
GetShaderAddresses(shaders) ==
    [i \in 1 .. MaxShaderProgram |-> shaders[i].gpu_addr]

\* the array GetShaders returns under registers r when every enabled program
\* already has its unit
CurrentShaders(r) ==
    [i \in 1 .. MaxShaderProgram |->
        IF IsShaderConfigEnabled(r, i - 1)
        THEN TryGet(map_cache, GetPointer(GetShaderAddress(r, i - 1)))
        ELSE NullShader]

\* "ASSERT(shader)" of DecompileShaders: every enabled program has its unit
\* (the draw called GetShaders before it asks for the pipeline)
ShadersResolved(r) ==
    \A index \in Programs :
        IsShaderConfigEnabled(r, index) => CurrentShaders(r)[index + 1] # NullShader

NoKey == [shaders |-> [i \in 1 .. MaxShaderProgram |-> 0], fixed_state |-> 0]

\* the value of ret: which call returned, under which registers, by which
\* path, for which key, the address of the pipeline it returned a reference
\* to and the units it resolved (GetShaders' array; for GetComputePipeline
\* the unit in slot 1)
Ret(op, r, path, key, value, shaders) ==
    [op |-> op, regs |-> r, path |-> path, key |-> key, value |-> value,
     shaders |-> shaders]

NoRegs == [i \in 1 .. MaxShaderProgram |-> 0]

NoRet == Ret("none", NoRegs, "none", NoKey, NullPipeline, NoShaders)

(***************************************************************************)
(* Pipeline objects                                                        *)
(***************************************************************************)
\* an empty std::unique_ptr: the mapped value try_emplace constructs
EmptyEntry == [id |-> NullPipeline, kind |-> "none", key |-> NoKey, specialization |-> 0]

\* addresses of the pipeline objects the two maps own
LivePipelines ==
    ({graphics_cache[k].id : k \in DOMAIN graphics_cache}
        \cup {compute_cache[k].id : k \in DOMAIN compute_cache}) \ {NullPipeline}

\* addresses no living pipeline occupies
FreeAddresses == (1 .. MaxPipelines) \ LivePipelines

\* Addresses std::make_unique may return.  Which free address the allocator
\* hands out matters only through the dangling last_graphics_pipeline: the
\* new object either reuses the address that pointer still holds or it does
\* not, so the lowest free address and the dangling one are offered.
NewAddresses ==
    {a \in FreeAddresses :
        \/ a = last_graphics_pipeline
        \/ \A b \in FreeAddresses \ {last_graphics_pipeline} : a <= b}

(***************************************************************************)
(* Initial state: the cache right after construction                       *)
(***************************************************************************)
CacheInit ==
    /\ map_cache = [p \in HostPtrs |-> NullShader]
    /\ graphics_cache = EmptyMap
    /\ compute_cache = EmptyMap
    /\ last_graphics_key = NoKey
    /\ last_graphics_pipeline = NullPipeline
    /\ ret = NoRet
    /\ throws = 0
    /\ unregistered = FALSE
    /\ first_call = EmptyMap
    /\ pc = "idle"
    /\ shader_arg = NullShader
    /\ finished = FALSE
    /\ it = {}
    /\ cur = NoKey
    /\ finish_calls = 0
    /\ pre_graphics_cache = EmptyMap
    /\ pre_compute_cache = EmptyMap

SizeOff ==
    /\ program = << >>
    /\ is_compute = FALSE
    /\ size_pc = "off"
    /\ size_result = 0

\* GetShaderCode has not been called
CodeOff ==
    /\ block = << >>
    /\ code_host_ptr = 0
    /\ program_code = << >>

\* no descriptor layout or update template has been derived
DescOff ==
    /\ layout = [op |-> "none"]
    /\ template = [op |-> "none"]
    /\ decompiled = [op |-> "none"]

Init == CacheInit /\ SizeOff /\ CodeOff /\ DescOff

unregVars == <<pc, shader_arg, finished, it, cur, finish_calls,
               pre_graphics_cache, pre_compute_cache>>

(***************************************************************************)
(* VKPipelineCache::GetShaders, the registers holding configuration r      *)
(***************************************************************************)
GetShaders(r) ==
    /\ pc = "idle"
    /\ LET res == GetShadersLoop(0, r, map_cache, NoShaders)
       IN  /\ \A i \in DOMAIN res.shaders : res.shaders[i].id <= MaxUnits
           /\ map_cache' = res.map_cache
           /\ ret' = Ret("GetShaders", r, "none", NoKey, NullPipeline, res.shaders)
    /\ UNCHANGED <<graphics_cache, compute_cache, last_graphics_key,
                   last_graphics_pipeline, throws, unregistered, first_call,
                   unregVars, sizeVars, codeVars, descVars>>

(***************************************************************************)
(* VKPipelineCache::GetGraphicsPipeline                                    *)
(***************************************************************************)
\* mutation of FastPath: the memoized key is not compared
FastPath_NoKeyCompare(key) == last_graphics_pipeline # NullPipeline

\* "if (last_graphics_pipeline && last_graphics_key == key)"
FastPath(key) ==
    last_graphics_pipeline # NullPipeline /\ last_graphics_key = key

\* second component of try_emplace's result
IsCacheMiss(cache, key) == key \notin DOMAIN cache

\* the VKGraphicsPipeline std::make_unique builds for key at address id
GraphicsPipeline(id, key) ==
    [id |-> id, kind |-> "graphics", key |-> key, specialization |-> key.fixed_state]

\* first_call after a call that returned rt
Recorded(h, rt) ==
    LET misses == IF rt.path = "miss" THEN 1 ELSE 0
    IN  IF rt.key \in DOMAIN h
        THEN [h EXCEPT ![rt.key].compiled = @ + misses]
        ELSE MapPut(h, rt.key, [first |-> rt.value, compiled |-> misses])

GetGraphicsPipeline(r, fixed_state, outcome) ==
    /\ pc = "idle"
    /\ ShadersResolved(r)
    /\ LET key == [shaders |-> GetShaderAddresses(CurrentShaders(r)),
                   fixed_state |-> fixed_state]
       IN  IF FastPath(key)
           THEN /\ outcome = "ok"
                /\ ret' = Ret("GetGraphicsPipeline", r, "fast", key,
                              last_graphics_pipeline, NoShaders)
                /\ UNCHANGED <<graphics_cache, last_graphics_key,
                               last_graphics_pipeline>>
           ELSE /\ last_graphics_key' = key
                /\ IF IsCacheMiss(graphics_cache, key)
                   THEN IF outcome = "ok"
                        THEN \E new \in NewAddresses :
                                 /\ graphics_cache' =
                                        MapPut(graphics_cache, key,
                                               GraphicsPipeline(new, key))
                                 /\ last_graphics_pipeline' = new
                                 /\ ret' = Ret("GetGraphicsPipeline", r, "miss", key,
                                               new, NoShaders)
                        ELSE \* DecompileShaders or the constructor throws after
                             \* try_emplace inserted the empty entry
                             /\ outcome = "construct_throws"
                             /\ graphics_cache' = MapPut(graphics_cache, key, EmptyEntry)
                             /\ ret' = Ret("GetGraphicsPipeline", r, "throw", key,
                                           NullPipeline, NoShaders)
                             /\ UNCHANGED last_graphics_pipeline
                   ELSE /\ outcome = "ok"
                        /\ last_graphics_pipeline' = graphics_cache[key].id
                        /\ ret' = Ret("GetGraphicsPipeline", r, "hit", key,
                                      graphics_cache[key].id, NoShaders)
                        /\ UNCHANGED graphics_cache
    /\ throws' = IF ret'.path = "throw" THEN throws + 1 ELSE throws
    /\ throws' <= MaxThrows
    /\ first_call' = IF unregistered \/ throws' > 0 THEN EmptyMap
                     ELSE Recorded(first_call, ret')
    /\ UNCHANGED <<map_cache, compute_cache, unregistered, unregVars, sizeVars, codeVars, descVars>>

(***************************************************************************)
(* VKPipelineCache::GetComputePipeline                                     *)
(***************************************************************************)
\* mutation of ComputeSpecialization: the key's sizes are not copied
ComputeSpecialization_Default(key) ==
    [workgroup_size |-> <<0, 0, 0>>, shared_memory_size |-> 0]

\* "specialization.workgroup_size = key.workgroup_size; ..."
ComputeSpecialization(key) ==
    [workgroup_size |-> key.workgroup_size,
     shared_memory_size |-> key.shared_memory_size]

\* the VKComputePipeline std::make_unique builds for key at address id
ComputePipeline(id, key) ==
    [id |-> id, kind |-> "compute", key |-> key,
     specialization |-> ComputeSpecialization(key)]

\* the unit GetComputePipeline resolved, as ret reports it
Resolved(shader) == [NoShaders EXCEPT ![1] = shader]

GetComputePipeline(key, outcome) ==
    /\ pc = "idle"
    /\ IF ~IsCacheMiss(compute_cache, key)
       THEN /\ outcome = "ok"
            /\ ret' = Ret("GetComputePipeline", NoRegs, "hit", key,
                          compute_cache[key].id, NoShaders)
            /\ UNCHANGED <<map_cache, compute_cache>>
       ELSE LET program_addr == key.shader
                host_ptr == GetPointer(program_addr)
                found == TryGet(map_cache, host_ptr)
                create == NeedsNewShader(found)
                live == UnitIds({map_cache[p] : p \in DOMAIN map_cache}, host_ptr)
                shader == IF create
                          THEN CachedShader(NewUnitId(live), ComputeStage,
                                            program_addr,
                                            GpuToCpuAddress(program_addr),
                                            host_ptr, 0)
                          ELSE found
            IN  IF outcome = "translate_throws"
                THEN \* CachedShader's constructor throws: nothing is registered
                     /\ create
                     /\ compute_cache' = MapPut(compute_cache, key, EmptyEntry)
                     /\ ret' = Ret("GetComputePipeline", NoRegs, "throw", key,
                                   NullPipeline, NoShaders)
                     /\ UNCHANGED map_cache
                ELSE /\ shader.id <= MaxUnits
                     /\ map_cache' = IF create THEN Register(map_cache, shader)
                                     ELSE map_cache
                     /\ IF outcome = "ok"
                        THEN \E new \in NewAddresses :
                                 /\ compute_cache' =
                                        MapPut(compute_cache, key,
                                               ComputePipeline(new, key))
                                 /\ ret' = Ret("GetComputePipeline", NoRegs, "miss",
                                               key, new, Resolved(shader))
                        ELSE \* Decompile or the constructor throws
                             /\ compute_cache' = MapPut(compute_cache, key, EmptyEntry)
                             /\ ret' = Ret("GetComputePipeline", NoRegs, "throw",
                                           key, NullPipeline, Resolved(shader))
    /\ throws' = IF ret'.path = "throw" THEN throws + 1 ELSE throws
    /\ throws' <= MaxThrows
    /\ first_call' = IF throws' > 0 THEN EmptyMap ELSE first_call
    /\ UNCHANGED <<graphics_cache, last_graphics_key, last_graphics_pipeline,
                   unregistered, unregVars, sizeVars, codeVars, descVars>>

(***************************************************************************)
(* VKPipelineCache::Unregister, one statement per step                     *)
(***************************************************************************)
\* "shader->GetGpuAddr()"
invalidated_addr == shader_arg.gpu_addr

\* mutation of Finish: the call is not guarded by the flag
Finish_Unguarded(fin) == [finished |-> TRUE, calls |-> 1]

\* the lambda Finish: sets the flag and says how often scheduler.Finish()
\* runs in this invocation
Finish(fin) == [finished |-> TRUE, calls |-> IF fin THEN 0 ELSE 1]

\* mutation of ReferencesShader: only the vertex stage slot is compared
ReferencesShader_VertexOnly(entry, addr) == entry.shaders[VertexB + 1] = addr

\* "std::find(entry.shaders.begin(), entry.shaders.end(), invalidated_addr)
\*  != entry.shaders.end()"
ReferencesShader(entry, addr) ==
    \E i \in 1 .. MaxShaderProgram : entry.shaders[i] = addr

\* mutation of ComputeReferencesShader: no compute entry ever matches
ComputeReferencesShader_Never(entry, addr) == FALSE

\* negation of "entry.shader != invalidated_addr"
ComputeReferencesShader(entry, addr) == entry.shader = addr

\* the units the rasterizer cache can invalidate: the registered ones
RegisteredShaders == {map_cache[p] : p \in DOMAIN map_cache} \ {NullShader}

UnregisterBegin(shader) ==
    /\ pc = "idle"
    /\ shader \in RegisteredShaders
    /\ shader_arg' = shader
    /\ finished' = FALSE
    /\ finish_calls' = 0
    /\ it' = DOMAIN graphics_cache
    /\ cur' = NoKey
    /\ pre_graphics_cache' = graphics_cache
    /\ pre_compute_cache' = compute_cache
    /\ pc' = "graphics_loop"
    /\ ret' = NoRet
    /\ unregistered' = TRUE
    /\ first_call' = EmptyMap
    /\ UNCHANGED <<map_cache, graphics_cache, compute_cache,
                   last_graphics_key, last_graphics_pipeline, throws, sizeVars, codeVars, descVars>>

\* mutation of GraphicsMatch: the entry is erased without waiting for the GPU
GraphicsMatch_NoFinish(entry) ==
    /\ graphics_cache' = MapErase(graphics_cache, entry)
    /\ it' = it \ {entry}
    /\ UNCHANGED <<pc, cur, finished, finish_calls>>

\* "Finish();" of the graphics loop, the iterator standing on entry
GraphicsMatch(entry) ==
    /\ finished' = Finish(finished).finished
    /\ finish_calls' = finish_calls + Finish(finished).calls
    /\ cur' = entry
    /\ pc' = "graphics_erase"
    /\ UNCHANGED <<graphics_cache, it>>

\* one evaluation of the graphics loop's condition and body up to the erase
GraphicsLoop ==
    /\ pc = "graphics_loop"
    /\ IF it = {}
       THEN /\ pc' = "compute_loop"
            /\ it' = DOMAIN compute_cache
            /\ UNCHANGED <<graphics_cache, cur, finished, finish_calls>>
       ELSE \E entry \in it :
                IF ~ReferencesShader(entry, invalidated_addr)
                THEN /\ it' = it \ {entry}
                     /\ UNCHANGED <<graphics_cache, pc, cur, finished, finish_calls>>
                ELSE GraphicsMatch(entry)
    /\ UNCHANGED <<map_cache, compute_cache, last_graphics_key,
                   last_graphics_pipeline, ret, throws, unregistered, first_call, shader_arg,
                   pre_graphics_cache, pre_compute_cache, sizeVars, codeVars, descVars>>

\* "it = graphics_cache.erase(it);"
GraphicsErase ==
    /\ pc = "graphics_erase"
    /\ graphics_cache' = MapErase(graphics_cache, cur)
    /\ it' = it \ {cur}
    /\ cur' = NoKey
    /\ pc' = "graphics_loop"
    /\ UNCHANGED <<map_cache, compute_cache, last_graphics_key,
                   last_graphics_pipeline, ret, throws, unregistered, first_call, shader_arg,
                   finished, finish_calls, pre_graphics_cache, pre_compute_cache,
                   sizeVars, codeVars, descVars>>

\* "Finish();" of the compute loop, the iterator standing on entry
ComputeMatch(entry) ==
    /\ finished' = Finish(finished).finished
    /\ finish_calls' = finish_calls + Finish(finished).calls
    /\ cur' = entry
    /\ pc' = "compute_erase"
    /\ UNCHANGED <<compute_cache, it>>

\* one evaluation of the compute loop's condition and body up to the erase
ComputeLoop ==
    /\ pc = "compute_loop"
    /\ IF it = {}
       THEN /\ pc' = "unregister"
            /\ UNCHANGED <<compute_cache, it, cur, finished, finish_calls>>
       ELSE \E entry \in it :
                IF ~ComputeReferencesShader(entry, invalidated_addr)
                THEN /\ it' = it \ {entry}
                     /\ UNCHANGED <<compute_cache, pc, cur, finished, finish_calls>>
                ELSE ComputeMatch(entry)
    /\ UNCHANGED <<map_cache, graphics_cache, last_graphics_key,
                   last_graphics_pipeline, ret, throws, unregistered, first_call, shader_arg,
                   pre_graphics_cache, pre_compute_cache, sizeVars, codeVars, descVars>>

\* "it = compute_cache.erase(it);"
ComputeErase ==
    /\ pc = "compute_erase"
    /\ compute_cache' = MapErase(compute_cache, cur)
    /\ it' = it \ {cur}
    /\ cur' = NoKey
    /\ pc' = "compute_loop"
    /\ UNCHANGED <<map_cache, graphics_cache, last_graphics_key,
                   last_graphics_pipeline, ret, throws, unregistered, first_call, shader_arg,
                   finished, finish_calls, pre_graphics_cache, pre_compute_cache,
                   sizeVars, codeVars, descVars>>

\* "RasterizerCache::Unregister(shader);" and the return
UnregisterEnd ==
    /\ pc = "unregister"
    /\ map_cache' = RegistryUnregister(map_cache, shader_arg)
    /\ pc' = "idle"
    /\ shader_arg' = NullShader
    /\ finished' = FALSE
    /\ finish_calls' = 0
    /\ pre_graphics_cache' = EmptyMap
    /\ pre_compute_cache' = EmptyMap
    /\ UNCHANGED <<graphics_cache, compute_cache,
                   last_graphics_key, last_graphics_pipeline, ret, throws,
                   unregistered, first_call, it, cur, sizeVars, codeVars, descVars>>

(***************************************************************************)
(* The cache's specification                                               *)
(***************************************************************************)
Next ==
    \/ \E r \in RegConfigs : GetShaders(r)
    \/ \E r \in RegConfigs, fixed_state \in FixedStates, outcome \in Outcomes :
           GetGraphicsPipeline(r, fixed_state, outcome)
    \/ \E key \in ComputeKeys, outcome \in Outcomes :
           GetComputePipeline(key, outcome)
    \/ \E shader \in RegisteredShaders : UnregisterBegin(shader)
    \/ GraphicsLoop
    \/ GraphicsErase
    \/ ComputeLoop
    \/ ComputeErase
    \/ UnregisterEnd

Spec == Init /\ [][Next]_vars

(***************************************************************************)
(* CalculateProgramSize                                                    *)
(*                                                                         *)
(* A u64 instruction word is a tuple of four 16-bit limbs, most            *)
(* significant first.                                                      *)
(***************************************************************************)
\* bitwise AND of two n-bit numbers
RECURSIVE BitAnd(_, _, _)
BitAnd(a, b, n) ==
    IF n = 0 THEN 0
    ELSE (a % 2) * (b % 2) + 2 * BitAnd(a \div 2, b \div 2, n - 1)

\* "instruction & mask" on u64
WordAnd(a, b) == [i \in 1 .. 4 |-> BitAnd(a[i], b[i], 16)]

\* 0xE2400FFFFF07000F
self_jumping_branch == <<57920, 4095, 65287, 15>>

\* mutation of mask: no bit is cleared
mask_AllOnes == <<65535, 65535, 65535, 65535>>

\* 0xFFFFFFFFFF7FFFFF
mask == <<65535, 65535, 65407, 65535>>

\* the u64 value 0
ZeroWord == <<0, 0, 0, 0>>

\* "Sched instructions appear once every 4 instructions."
SchedPeriod == 4

\* mutation of IsSchedInstruction: the offset is not taken relative to main
IsSchedInstruction_Absolute(offset, main_offset) == (offset % SchedPeriod) = 0

IsSchedInstruction(offset, main_offset) ==
    ((offset - main_offset) % SchedPeriod) = 0

\* "is_compute ? 0 : 10"
StartOffset(compute) == IF compute THEN 0 ELSE 10

\* The while loop of CalculateProgramSize with the cursor at offset: the
\* value of offset when the loop is left.  code[offset + 1] is program[offset].
RECURSIVE ScanLoop(_, _, _)
ScanLoop(code, offset, start_offset) ==
    IF offset < Len(code)
    THEN LET instruction == code[offset + 1]
         IN  IF /\ ~IsSchedInstruction(offset, start_offset)
                /\ \/ WordAnd(instruction, mask) = self_jumping_branch
                   \/ instruction = ZeroWord
             THEN offset
             ELSE ScanLoop(code, offset + 1, start_offset)
    ELSE offset

CalculateProgramSize(code, compute) ==
    LET offset == ScanLoop(code, StartOffset(compute), StartOffset(compute))
    IN  IF offset + 1 <= Len(code) THEN offset + 1 ELSE Len(code)

(***************************************************************************)
(* SizeSpec: CalculateProgramSize on bounded buffers                       *)
(***************************************************************************)
\* self_jumping_branch with bit 23 set
BranchBit23 == <<57920, 4095, 65415, 15>>
\* self_jumping_branch with bit 22 set
BranchBit22 == <<57920, 4095, 65351, 15>>
\* only bit 23 set
OnlyBit23 == <<0, 0, 128, 0>>

\* the instruction words buffers are made of
Words == {ZeroWord, self_jumping_branch, BranchBit23, BranchBit22, OnlyBit23}

\* the words a header is filled with
HeaderWords == {ZeroWord, self_jumping_branch}

\* Buffers start as a compute program with no word yet, or as a graphics
\* program that is a (possibly cut short) header of equal words.
SizeInit ==
    /\ CacheInit
    /\ CodeOff
    /\ DescOff
    /\ size_pc = "build"
    /\ size_result = 0
    /\ is_compute \in BOOLEAN
    /\ program \in
          IF is_compute THEN {<< >>}
          ELSE {[i \in 1 .. n |-> h] : n \in 0 .. StartOffset(FALSE), h \in HeaderWords}

\* one more word after the header
AppendWord(w) ==
    /\ size_pc = "build"
    /\ Len(program) >= StartOffset(is_compute)
    /\ Len(program) < StartOffset(is_compute) + MaxTail
    /\ program' = Append(program, w)
    /\ UNCHANGED <<is_compute, size_pc, size_result, cacheVars, codeVars, descVars>>

\* the call CalculateProgramSize(program, is_compute)
Calculate ==
    /\ size_pc = "build"
    /\ size_result' = CalculateProgramSize(program, is_compute)
    /\ size_pc' = "done"
    /\ UNCHANGED <<program, is_compute, cacheVars, codeVars, descVars>>

SizeNext ==
    \/ \E w \in Words : AppendWord(w)
    \/ Calculate

SizeSpec == SizeInit /\ [][SizeNext]_vars

(***************************************************************************)
(* Properties of CalculateProgramSize (checked under SizeSpec)             *)
(***************************************************************************)
\* the scan origin of the buffer under test
Start == IF is_compute THEN 0 ELSE 10

\* the word at 0-based index i of the buffer under test
WordAt(i) == program[i + 1]

\* w with bit 23 cleared (bit 7 of the limb holding bits 16..31)
ClearBit23(w) ==
    [w EXCEPT ![3] = IF (w[3] \div 128) % 2 = 1 THEN w[3] - 128 ELSE w[3]]

\* index i is at or after the scan origin, is not a scheduler slot and holds
\* a terminating word
TerminatesAt(i) ==
    /\ i >= Start
    /\ i < Len(program)
    /\ (i - Start) % 4 # 0
    /\ \/ WordAt(i) = ZeroWord
       \/ ClearBit23(WordAt(i)) = <<57920, 4095, 65287, 15>>

Terminators == {i \in 0 .. (Len(program) - 1) : TerminatesAt(i)}

\* the self-branch sentinel sits at Start + j and nothing terminates before it
SentinelFirstAt(j) ==
    /\ size_pc = "done"
    /\ Start + j < Len(program)
    /\ WordAt(Start + j) = <<57920, 4095, 65287, 15>>
    /\ \A i \in Terminators : i >= Start + j

\* C9 as stated: with the self-branch sentinel at index start + 4 and no
\* terminator before it, CalculateProgramSize returns start + 5.
C9_SentinelAtFour == SentinelFirstAt(4) => size_result = Start + 5

\* C9 amended: with the self-branch sentinel at index start + j, j not a
\* multiple of 4, and no terminator in a non-scheduler slot before it,
\* CalculateProgramSize returns start + j + 1 (the sentinel included); a
\* sentinel at start + 4 is in a scheduler slot and does not end the scan,
\* so a longer buffer yields more than start + 5.
C9_SentinelOffSchedSlot ==
    /\ \A j \in 1 .. MaxTail :
           (j % 4 # 0 /\ SentinelFirstAt(j)) => size_result = Start + j + 1
    /\ (SentinelFirstAt(4) /\ Len(program) > Start + 5) => size_result > Start + 5

\* a graphics buffer with the sentinel at start + 5, the slot start + 4
\* holding a sentinel too, measured as start + 6
C9_Witness ==
    /\ ~is_compute
    /\ SentinelFirstAt(5)
    /\ SentinelFirstAt(4)
    /\ size_result = Start + 6

\* C10: CalculateProgramSize returns min(i + 1, size) for the smallest index
\* i >= start that is not a scheduler slot and holds a zero word or the
\* self-branch encoding up to bit 23, and the full size when there is none;
\* an all-zero buffer of at least start + 2 words yields start + 2; the
\* result never exceeds the buffer size.
C10_FirstTerminator ==
    size_pc = "done" =>
        /\ size_result <= Len(program)
        /\ IF Terminators = {}
           THEN size_result = Len(program)
           ELSE \E i \in Terminators :
                    /\ \A k \in Terminators : i <= k
                    /\ size_result = IF i + 1 <= Len(program) THEN i + 1
                                     ELSE Len(program)
        /\ ((\A i \in 0 .. (Len(program) - 1) : WordAt(i) = ZeroWord)
                /\ Len(program) >= Start + 2)
             => size_result = Start + 2

\* a graphics buffer whose scheduler slots start and start + 4 hold
\* terminating words, ended by the predicated self-branch at start + 5
C10_Witness ==
    /\ size_pc = "done"
    /\ ~is_compute
    /\ Len(program) = Start + MaxTail
    /\ WordAt(Start) = ZeroWord
    /\ WordAt(Start + 4) = <<57920, 4095, 65287, 15>>
    /\ WordAt(Start + 5) = BranchBit23
    /\ Terminators = {Start + 5}
    /\ size_result = Start + 6

(***************************************************************************)
(* Properties of the cache (checked under Spec)                            *)
(***************************************************************************)
\* addresses of the pipelines a map owns
Owned(cache) == {cache[k].id : k \in DOMAIN cache} \ {NullPipeline}

MemoRemoved ==
    /\ last_graphics_pipeline # NullPipeline
    /\ last_graphics_key \notin DOMAIN graphics_cache

\* C2 as stated: once Unregister has removed the entry the memoized slot
\* points at, the next GetGraphicsPipeline call with the memoized key takes
\* the miss path and compiles; it does not return the memoized pointer by
\* the fast path.
C2_RecompilesAfterRemoval ==
    [][(/\ pc = "idle"
        /\ MemoRemoved
        /\ ret'.op = "GetGraphicsPipeline"
        /\ ret'.key = last_graphics_key)
          => ret'.path \in {"miss", "throw"}]_vars

\* keys of cache that hold addr in a stage slot
GraphicsKeysOf(cache, addr) ==
    {k \in DOMAIN cache : \E i \in 1 .. MaxShaderProgram : k.shaders[i] = addr}

\* keys of cache whose shader is addr
ComputeKeysOf(cache, addr) == {k \in DOMAIN cache : k.shader = addr}

\* m without the keys in gone
Without(m, gone) == [k \in (DOMAIN m) \ gone |-> m[k]]

\* C3: when Unregister(shader) returns, the graphics map is the map the call
\* found minus exactly the entries whose key holds the unit's GPU address in
\* some stage slot, and the compute map is the one it found minus exactly
\* the entries whose key.shader is that address; all other entries are
\* present with the pipelines they had.
C3_RemovesExactlyReferencing ==
    [][(pc = "unregister" /\ pc' = "idle") =>
          /\ graphics_cache' =
                 Without(pre_graphics_cache,
                         GraphicsKeysOf(pre_graphics_cache, shader_arg.gpu_addr))
          /\ compute_cache' =
                 Without(pre_compute_cache,
                         ComputeKeysOf(pre_compute_cache, shader_arg.gpu_addr))]_vars

\* both loops are over: an entry holding the address in the fragment slot
\* was removed and a pipeline of another shader is still cached
C3_Witness ==
    /\ pc = "unregister"
    /\ \E k \in (DOMAIN pre_graphics_cache) \ (DOMAIN graphics_cache) :
           k.shaders[Fragment + 1] = shader_arg.gpu_addr
    /\ Owned(graphics_cache) # {}
    /\ graphics_cache = Without(pre_graphics_cache,
                                GraphicsKeysOf(pre_graphics_cache, shader_arg.gpu_addr))

\* number of entries the running Unregister has erased so far
Erased ==
    Cardinality((DOMAIN pre_graphics_cache) \ (DOMAIN graphics_cache))
        + Cardinality((DOMAIN pre_compute_cache) \ (DOMAIN compute_cache))

\* C4: one Unregister call makes at most one scheduler.Finish() call: one
\* when it removes at least one entry from either map, none when no entry
\* references the shader.
C4_FinishAtMostOnce ==
    /\ finish_calls <= 1
    /\ pc = "unregister" => finish_calls = (IF Erased > 0 THEN 1 ELSE 0)

\* a call that removed a graphics entry and a compute entry and waited once
C4_Witness ==
    /\ pc = "unregister"
    /\ (DOMAIN pre_graphics_cache) \ (DOMAIN graphics_cache) # {}
    /\ (DOMAIN pre_compute_cache) \ (DOMAIN compute_cache) # {}
    /\ finish_calls = 1

\* C5: every step of Unregister that erases an entry of either map starts in
\* a state in which this call's scheduler.Finish() has already returned.
C5_FinishBeforeErase ==
    [][(\/ (DOMAIN graphics_cache) \ (DOMAIN graphics_cache') # {}
        \/ (DOMAIN compute_cache) \ (DOMAIN compute_cache') # {})
          => (finished /\ finish_calls = 1)]_vars

\* the first erase of a call has happened, after the wait
C5_Witness ==
    /\ pc = "graphics_loop"
    /\ Erased = 1
    /\ finished
    /\ finish_calls = 1

\* C6 as stated: after a miss in which translation, generation or
\* construction failed, the map holds no entry for the key.
C6_FailedMissLeavesNoEntry ==
    ret.path = "throw" =>
        IF ret.op = "GetGraphicsPipeline"
        THEN ret.key \notin DOMAIN graphics_cache
        ELSE ret.key \notin DOMAIN compute_cache

\* the programs GetShaders resolved under registers r
EnabledPrograms(r) == {index \in Programs : r[index + 1] # 0}

\* C7: a resolution of a GPU address whose unit (same GPU address, CPU
\* address and host pointer) is registered, by GetShaders or by a miss of
\* GetComputePipeline, returns that registered unit and leaves it
\* registered; no unit is constructed or registered for it again.
C7_ResolveReturnsRegistered ==
    [][/\ ret'.op = "GetShaders" =>
              \A index \in EnabledPrograms(ret'.regs) :
                  LET addr == ret'.regs[index + 1]
                      unit == map_cache[GetPointer(addr)]
                  IN  (unit.id # 0 /\ unit.gpu_addr = addr
                          /\ unit.cpu_addr = GpuToCpuAddress(addr)) =>
                          /\ ret'.shaders[index + 1] = unit
                          /\ map_cache'[GetPointer(addr)] = unit
       /\ (ret'.op = "GetComputePipeline" /\ ret'.path \in {"miss", "throw"}) =>
              LET addr == ret'.key.shader
                  unit == map_cache[GetPointer(addr)]
              IN  (unit.id # 0 /\ unit.gpu_addr = addr
                      /\ unit.cpu_addr = GpuToCpuAddress(addr)) =>
                      /\ ret'.shaders[1] = unit
                      /\ map_cache' = map_cache]_vars

\* a compute miss resolved the unit GetShaders had constructed for the
\* fragment program at the same address
C7_Witness ==
    /\ ret.op = "GetComputePipeline"
    /\ ret.path = "miss"
    /\ ret.shaders[1].id # 0
    /\ ret.shaders[1].stage = GetStageFromProgram(Fragment)
    /\ map_cache[GetPointer(ret.key.shader)] = ret.shaders[1]

\* C8: compute keys with the same shader that differ in workgroup_size or in
\* shared_memory_size are distinct entries: each compiled entry is a
\* pipeline of its own, built for its key with the key's specialization, and
\* a call returns the pipeline of its own key.
C8_ComputeKeysDistinct ==
    /\ \A k \in DOMAIN compute_cache :
           compute_cache[k].id # NullPipeline =>
               /\ compute_cache[k].key = k
               /\ compute_cache[k].specialization.workgroup_size = k.workgroup_size
               /\ compute_cache[k].specialization.shared_memory_size
                      = k.shared_memory_size
               /\ \A k2 \in (DOMAIN compute_cache) \ {k} :
                      compute_cache[k2].id # compute_cache[k].id
    /\ (ret.op = "GetComputePipeline" /\ ret.path \in {"hit", "miss"}) =>
           /\ ret.key \in DOMAIN compute_cache
           /\ ret.value = compute_cache[ret.key].id

\* two compiled entries of one shader that differ only in workgroup_size
C8_Witness ==
    \E k1 \in DOMAIN compute_cache, k2 \in DOMAIN compute_cache :
        /\ k1.shader = k2.shader
        /\ k1.shared_memory_size = k2.shared_memory_size
        /\ k1.workgroup_size # k2.workgroup_size
        /\ compute_cache[k1].id # NullPipeline
        /\ compute_cache[k2].id # NullPipeline
        /\ ret.op = "GetComputePipeline"
        /\ ret.key = k2

(***************************************************************************)
(* Descriptor set layout: AddBindings and FillDescriptorLayout             *)
(*                                                                         *)
(* ShaderEntries (the resource manifest of a unit) is a record of five     *)
(* containers; a container is the sequence of the sizes its resources      *)
(* declare (Size() of a sampler is its array size).                        *)
(***************************************************************************)
\* resources of one kind other than samplers a manifest declares at most
MaxResources == 2
\* samplers a manifest declares at most
MaxSamplers == 3
\* largest array size of a sampler
MaxArraySize == 2

eUniformBuffer == "eUniformBuffer"
eStorageBuffer == "eStorageBuffer"
eUniformTexelBuffer == "eUniformTexelBuffer"
eCombinedImageSampler == "eCombinedImageSampler"
eStorageImage == "eStorageImage"

\* containers of at most n resources whose declared sizes are in sizes
Containers(n, sizes) == UNION {[1 .. k -> sizes] : k \in 0 .. n}

ShaderEntries(const_buffers, global_buffers, texel_buffers, samplers, images) ==
    [const_buffers |-> const_buffers, global_buffers |-> global_buffers,
     texel_buffers |-> texel_buffers, samplers |-> samplers, images |-> images]

\* The manifests under test.  Resources that are not samplers declare the
\* size MaxArraySize, which no binding may depend on.
Manifests ==
    {ShaderEntries(c, g, t, s, i) :
        c \in Containers(MaxResources, {MaxArraySize}),
        g \in Containers(MaxResources, {MaxArraySize}),
        t \in Containers(MaxResources, {MaxArraySize}),
        s \in Containers(MaxSamplers, 1 .. MaxArraySize),
        i \in Containers(MaxResources, {MaxArraySize})}

\* ShaderEntries::NumBindings()
NumBindings(entries) ==
    Len(entries.const_buffers) + Len(entries.global_buffers)
        + Len(entries.texel_buffers) + Len(entries.samplers) + Len(entries.images)

\* MaxwellToVK::ShaderStage: the stage's bit of vk::ShaderStageFlagBits
ShaderStage(stage) == 2 ^ stage

\* vk::DescriptorSetLayoutBinding's constructor
DescriptorSetLayoutBinding(binding, descriptor_type, count, stage_flags) ==
    [binding |-> binding, descriptor_type |-> descriptor_type,
     count |-> count, stage_flags |-> stage_flags]

\* mutation of BindingCount: every kind takes the size its resource declares
BindingCount_AnyKind(descriptor_type, resource) == resource

\* "u32 count = 1; if constexpr (descriptor_type == eCombinedImageSampler)
\*  count = container[i].Size();"
BindingCount(descriptor_type, resource) ==
    IF descriptor_type = eCombinedImageSampler THEN resource ELSE 1

\* the loop of AddBindings from position i on; the result holds the vector
\* and the counter the two reference parameters end with
RECURSIVE AddBindingsLoop(_, _, _, _, _, _)
AddBindingsLoop(i, descriptor_type, bindings, binding, stage_flags, container) ==
    IF i >= Len(container)
    THEN [bindings |-> bindings, binding |-> binding]
    ELSE LET count == BindingCount(descriptor_type, container[i + 1])
         IN  AddBindingsLoop(i + 1, descriptor_type,
                 Append(bindings,
                        DescriptorSetLayoutBinding(binding, descriptor_type,
                                                   count, stage_flags)),
                 binding + 1, stage_flags, container)

AddBindings(descriptor_type, bindings, binding, stage_flags, container) ==
    AddBindingsLoop(0, descriptor_type, bindings, binding, stage_flags, container)

\* the result holds the vector as the call leaves it and the returned value
FillDescriptorLayout(entries, bindings, program_type, base_binding) ==
    LET stage == GetStageFromProgram(program_type)
        flags == ShaderStage(stage)
        a == AddBindings(eUniformBuffer, bindings, base_binding, flags,
                         entries.const_buffers)
        b == AddBindings(eStorageBuffer, a.bindings, a.binding, flags,
                         entries.global_buffers)
        c == AddBindings(eUniformTexelBuffer, b.bindings, b.binding, flags,
                         entries.texel_buffers)
        d == AddBindings(eCombinedImageSampler, c.bindings, c.binding, flags,
                         entries.samplers)
        e == AddBindings(eStorageImage, d.bindings, d.binding, flags,
                         entries.images)
    IN  [bindings |-> e.bindings, binding |-> e.binding]

\* binding indices a stage may start at
BaseBindings == {0, 2}

NoCall == [op |-> "none"]

\* none of the three derivations has been run yet
NoDerivation == layout = NoCall /\ template = NoCall /\ decompiled = NoCall

\* the call FillDescriptorLayout(entries, bindings, program_type,
\* base_binding) on an empty vector
LayoutCall(entries, program_type, base_binding) ==
    /\ NoDerivation
    /\ LET res == FillDescriptorLayout(entries, << >>, program_type, base_binding)
       IN  layout' = [op |-> "FillDescriptorLayout", entries |-> entries,
                      program_type |-> program_type,
                      base_binding |-> base_binding,
                      bindings |-> res.bindings, binding |-> res.binding]
    /\ template' = NoCall
    /\ decompiled' = NoCall
    /\ UNCHANGED <<cacheVars, sizeVars, codeVars>>

(***************************************************************************)
(* Descriptor update template: AddEntry and                                *)
(* FillDescriptorUpdateTemplateEntries                                     *)
(***************************************************************************)
\* sizeof(DescriptorUpdateEntry): a union of vk::DescriptorImageInfo,
\* vk::DescriptorBufferInfo and vk::BufferView
entry_size == 24

\* vk::DescriptorUpdateTemplateEntry's constructor
DescriptorUpdateTemplateEntry(dstBinding, dstArrayElement, descriptorCount, descriptorType, offset, stride) ==
    [dstBinding |-> dstBinding, dstArrayElement |-> dstArrayElement,
     descriptorCount |-> descriptorCount, descriptorType |-> descriptorType,
     offset |-> offset, stride |-> stride]

\* what AddEntry leaves in its three reference parameters
AddEntryResult(template_entries, binding, offset) ==
    [template_entries |-> template_entries, binding |-> binding, offset |-> offset]

\* the loop over the samplers from position i on
RECURSIVE AddEntrySamplers(_, _, _, _, _)
AddEntrySamplers(i, template_entries, binding, offset, container) ==
    IF i >= Len(container)
    THEN AddEntryResult(template_entries, binding, offset)
    ELSE LET num_samplers == container[i + 1]
         IN  AddEntrySamplers(i + 1,
                 Append(template_entries,
                        DescriptorUpdateTemplateEntry(binding, 0, num_samplers,
                            eCombinedImageSampler, offset, entry_size)),
                 binding + 1, offset + num_samplers * entry_size, container)

\* the loop over the texel buffers from position i on: one entry each
RECURSIVE AddEntryTexels(_, _, _, _, _)
AddEntryTexels(i, template_entries, binding, offset, count) ==
    IF i >= count
    THEN template_entries
    ELSE AddEntryTexels(i + 1,
             Append(template_entries,
                    DescriptorUpdateTemplateEntry(binding + i, 0, 1,
                        eUniformTexelBuffer, offset + i * entry_size, entry_size)),
             binding, offset, count)

\* AddEntry<descriptor_type>(template_entries, binding, offset, container)
AddEntry(descriptor_type, template_entries, binding, offset, container) ==
    LET count == Len(container)
    IN  IF descriptor_type = eCombinedImageSampler
        THEN AddEntrySamplers(0, template_entries, binding, offset, container)
        ELSE LET added ==
                     IF descriptor_type = eUniformTexelBuffer
                     THEN AddEntryTexels(0, template_entries, binding, offset, count)
                     ELSE IF count > 0
                     THEN Append(template_entries,
                                 DescriptorUpdateTemplateEntry(binding, 0, count,
                                     descriptor_type, offset, entry_size))
                     ELSE template_entries
             IN  AddEntryResult(added, binding + count, offset + count * entry_size)

\* FillDescriptorUpdateTemplateEntries(entries, binding, offset,
\* template_entries).  Every call of AddEntry is written
\* "AddEntry<...>(template_entries, offset, binding, ...)": AddEntry's
\* parameter binding is bound to the caller's offset and its parameter offset
\* to the caller's binding.  The result holds the vector and the values the
\* caller's binding and offset end with.
FillDescriptorUpdateTemplateEntries(entries, binding, offset, template_entries) ==
    LET a == AddEntry(eUniformBuffer, template_entries, offset, binding,
                      entries.const_buffers)
        b == AddEntry(eStorageBuffer, a.template_entries, a.binding, a.offset,
                      entries.global_buffers)
        c == AddEntry(eUniformTexelBuffer, b.template_entries, b.binding, b.offset,
                      entries.texel_buffers)
        d == AddEntry(eCombinedImageSampler, c.template_entries, c.binding, c.offset,
                      entries.samplers)
        e == AddEntry(eStorageImage, d.template_entries, d.binding, d.offset,
                      entries.images)
    IN  [template_entries |-> e.template_entries,
         binding |-> e.offset, offset |-> e.binding]

\* values of the caller's binding and offset before the call
TemplateBindings == 0 .. 1
TemplateOffsets == {0, entry_size}

\* the call FillDescriptorUpdateTemplateEntries(entries, binding, offset,
\* template_entries) on an empty vector
TemplateCall(entries, binding, offset) ==
    /\ NoDerivation
    /\ LET res == FillDescriptorUpdateTemplateEntries(entries, binding, offset, << >>)
       IN  template' = [op |-> "FillDescriptorUpdateTemplateEntries",
                        entries |-> entries, binding |-> binding,
                        offset |-> offset,
                        template_entries |-> res.template_entries,
                        binding_after |-> res.binding,
                        offset_after |-> res.offset]
    /\ layout' = NoCall
    /\ decompiled' = NoCall
    /\ UNCHANGED <<cacheVars, sizeVars, codeVars>>

(***************************************************************************)
(* VKPipelineCache::DecompileShaders: the loop over the shader programs    *)
(***************************************************************************)
\* Maxwell::MaxShaderStage: the slots of SPIRVProgram
MaxShaderStage == 5

\* GetShaderType(program): a ShaderType (Vertex = 0 .. Fragment = 4);
\* VertexA takes the default branch
GetShaderType(program_enum) ==
    CASE program_enum = VertexB -> 0
      [] program_enum = 2 -> 1
      [] program_enum = 3 -> 2
      [] program_enum = 4 -> 3
      [] program_enum = Fragment -> 4
      [] OTHER -> 0

\* an empty std::optional<SPIRVShader>
NoSPIRVShader == [index |-> -1, program_type |-> -1, entries |-> << >>]

\* mutation of SkipVertexB: the VertexB iteration is never skipped
SkipVertexB_Never(index) == index

\* "if (program_enum == Maxwell::ShaderProgram::VertexA) ++index;"
SkipVertexB(index) == IF index = VertexA THEN index + 1 ELSE index

\* mutation of CarryBaseBinding: every stage starts at the first stage's base
CarryBaseBinding_Reset(old_binding, returned) == old_binding

\* "specialization.base_binding = FillDescriptorLayout(...)"
CarryBaseBinding(old_binding, returned) == returned

\* The loop of DecompileShaders from position index on.  r are the registers,
\* entries_of[p + 1] is what GetEntries() returns for the unit TryGet finds
\* for program p; spirv is the local "program", written the stage slots that
\* were assigned, in order.
RECURSIVE DecompileLoop(_, _, _, _, _, _, _)
DecompileLoop(index, r, entries_of, spirv, bindings, base_binding, written) ==
    IF index >= MaxShaderProgram
    THEN [program |-> spirv, bindings |-> bindings,
          base_binding |-> base_binding, written |-> written]
    ELSE IF ~IsShaderConfigEnabled(r, index)
    THEN DecompileLoop(index + 1, r, entries_of, spirv, bindings,
                       base_binding, written)
    ELSE LET stage == IF index = 0 THEN 0 ELSE index - 1
             program_type == GetShaderType(index)
             entries == entries_of[index + 1]
             shader == [index |-> index, program_type |-> program_type,
                        entries |-> entries]
             old_binding == base_binding
             filled == FillDescriptorLayout(entries, bindings, index, old_binding)
         IN  DecompileLoop(SkipVertexB(index) + 1, r, entries_of,
                           [spirv EXCEPT ![stage + 1] = shader],
                           filled.bindings,
                           CarryBaseBinding(old_binding, filled.binding),
                           Append(written, stage))

DecompileShaders(r, entries_of) ==
    DecompileLoop(0, r, entries_of,
                  [stage \in 1 .. MaxShaderStage |-> NoSPIRVShader], << >>, 0, << >>)

\* register configurations: every combination of enabled programs
EnabledConfigs == [1 .. MaxShaderProgram -> {0, 1}]

\* manifests of the units of a graphics pipeline
StageManifests ==
    { ShaderEntries(<< >>, << >>, << >>, << >>, << >>),
      ShaderEntries(<<2>>, << >>, << >>, <<2>>, << >>),
      ShaderEntries(<< >>, << >>, <<2, 2>>, << >>, <<2>>) }

\* the call DecompileShaders(key) under registers r
DecompileCall(r, entries_of) ==
    /\ NoDerivation
    /\ LET res == DecompileShaders(r, entries_of)
       IN  decompiled' = [op |-> "DecompileShaders", regs |-> r,
                          entries_of |-> entries_of, program |-> res.program,
                          bindings |-> res.bindings,
                          base_binding |-> res.base_binding,
                          written |-> res.written]
    /\ layout' = NoCall
    /\ template' = NoCall
    /\ UNCHANGED <<cacheVars, sizeVars, codeVars>>

(***************************************************************************)
(* DescSpec: the descriptor derivations on bounded manifests               *)
(***************************************************************************)
DescInit == CacheInit /\ SizeOff /\ CodeOff /\ DescOff

DescNext ==
    /\ NoDerivation
    /\ \/ \E entries \in Manifests, program_type \in {VertexB, Fragment},
             base_binding \in BaseBindings :
              LayoutCall(entries, program_type, base_binding)
       \/ \E entries \in Manifests, binding \in TemplateBindings,
             offset \in TemplateOffsets :
              TemplateCall(entries, binding, offset)
       \/ \E r \in EnabledConfigs,
             entries_of \in [1 .. MaxShaderProgram -> StageManifests] :
              DecompileCall(r, entries_of)

DescSpec == DescInit /\ [][DescNext]_vars

(***************************************************************************)
(* Properties of the descriptor derivations (checked under DescSpec)       *)
(***************************************************************************)
RECURSIVE SumSeq(_)
SumSeq(q) == IF q = << >> THEN 0 ELSE Head(q) + SumSeq(Tail(q))

\* the resources of one container, each tagged with its kind
Tagged(kind, container) ==
    [i \in 1 .. Len(container) |-> [kind |-> kind, size |-> container[i]]]

\* the declared resources of a manifest in the fixed kind order
Declared(entries) ==
    Tagged(eUniformBuffer, entries.const_buffers)
        \o Tagged(eStorageBuffer, entries.global_buffers)
        \o Tagged(eUniformTexelBuffer, entries.texel_buffers)
        \o Tagged(eCombinedImageSampler, entries.samplers)
        \o Tagged(eStorageImage, entries.images)

\* elements a declared resource binds: the array size of a sampler, else 1
Elements(resource) ==
    IF resource.kind = eCombinedImageSampler THEN resource.size ELSE 1

\* total element count of a manifest
TotalElements(entries) ==
    SumSeq([i \in 1 .. Len(Declared(entries)) |-> Elements(Declared(entries)[i])])

\* the manifest with 2 constant buffers, no storage buffer, 1 texel buffer,
\* 3 samplers of sizes 1, 1, 2 and 1 image
ExampleManifest ==
    ShaderEntries(<<MaxArraySize, MaxArraySize>>, << >>, <<MaxArraySize>>,
                  <<1, 1, 2>>, <<MaxArraySize>>)

\* number of elements the bindings of the last FillDescriptorLayout call bind
BoundElements ==
    SumSeq([i \in 1 .. Len(layout.bindings) |-> layout.bindings[i].count])

\* FillDescriptorLayout appends one binding per declared resource, in the
\* kind order constant buffers, storage buffers, texel buffers, samplers,
\* images, with the consecutive indices base_binding, base_binding + 1, ...;
\* a sampler binding has its array size as element count and every other
\* binding 1; the call returns base_binding plus the number of declared
\* resources.
LayoutOnePerResource ==
    layout.op = "FillDescriptorLayout" =>
        LET d == Declared(layout.entries)
            b == layout.bindings
        IN  /\ Len(b) = Len(d)
            /\ \A i \in 1 .. Len(b) :
                   /\ b[i].binding = layout.base_binding + i - 1
                   /\ b[i].descriptor_type = d[i].kind
                   /\ b[i].count = Elements(d[i])
            /\ layout.binding = layout.base_binding + Len(d)

\* the last call laid out the example manifest
ExampleLaidOut ==
    layout.op = "FillDescriptorLayout" /\ layout.entries = ExampleManifest

\* C11 as stated: one binding per declared resource in the fixed kind order
\* with consecutive indices, array size as count for samplers and 1
\* otherwise, base_binding advanced by the number of declared resources; the
\* example manifest yields 7 bindings, 9 bound elements and a delta of 7.
C11_LayoutExampleNine ==
    /\ LayoutOnePerResource
    /\ ExampleLaidOut =>
           /\ Len(layout.bindings) = 7
           /\ BoundElements = 9
           /\ layout.binding - layout.base_binding = 7

\* C11 amended: as stated, except that the example manifest yields 7
\* bindings, 8 bound elements (2 + 0 + 1 + (1 + 1 + 2) + 1) and a delta of 7.
C11_LayoutOnePerResource ==
    /\ LayoutOnePerResource
    /\ ExampleLaidOut =>
           /\ Len(layout.bindings) = 7
           /\ BoundElements = 8
           /\ layout.binding - layout.base_binding = 7

\* the example manifest laid out from base binding 2: 7 bindings with the
\* indices 2 .. 8, the sampler of size 2 at index 7 with 2 elements
C11_Witness ==
    /\ ExampleLaidOut
    /\ layout.base_binding = 2
    /\ Len(layout.bindings) = 7
    /\ layout.bindings[6].binding = 7
    /\ layout.bindings[6].descriptor_type = eCombinedImageSampler
    /\ layout.bindings[6].count = 2
    /\ layout.binding = 9

\* the programs whose iteration of DecompileShaders runs under registers r:
\* the enabled ones, VertexB only when VertexA is not enabled
Contributing(r) ==
    {p \in Programs : r[p + 1] # 0 /\ ~(p = VertexB /\ r[VertexA + 1] # 0)}

\* sum of the declared-resource counts of the contributing stages
ContributedBindings(r, entries_of) ==
    SumSeq([i \in 1 .. MaxShaderProgram |->
               IF (i - 1) \in Contributing(r)
               THEN Len(Declared(entries_of[i])) ELSE 0])

\* C12: the bindings DecompileShaders collects are in stage order Vertex,
\* TessControl, TessEval, Geometry, Fragment and their indices are pairwise
\* distinct and form the range 0 .. N-1, N the sum of the declared-resource
\* counts of the stages that contributed.
C12_BindingsContiguousAcrossStages ==
    decompiled.op = "DecompileShaders" =>
        LET b == decompiled.bindings
            N == ContributedBindings(decompiled.regs, decompiled.entries_of)
        IN  /\ Len(b) = N
            /\ decompiled.base_binding = N
            /\ \A i \in 1 .. Len(b) : b[i].binding = i - 1
            /\ \A i, j \in 1 .. Len(b) :
                   /\ i # j => b[i].binding # b[j].binding
                   /\ i < j => b[i].stage_flags <= b[j].stage_flags

\* all five stages are enabled, three of them with resources, and the last
\* binding belongs to the fragment stage and has an index of at least 4
C12_Witness ==
    /\ decompiled.op = "DecompileShaders"
    /\ \A p \in Programs \ {VertexA} : decompiled.regs[p + 1] # 0
    /\ decompiled.regs[VertexA + 1] = 0
    /\ Len(decompiled.bindings) >= 5
    /\ decompiled.bindings[1].stage_flags = ShaderStage(0)
    /\ decompiled.bindings[Len(decompiled.bindings)].stage_flags = ShaderStage(4)
    /\ \E i \in 1 .. Len(decompiled.bindings) :
           decompiled.bindings[i].stage_flags = ShaderStage(2)

\* C13: FillDescriptorUpdateTemplateEntries advances the caller's binding by
\* the number of declared resources of the manifest and the caller's offset
\* by entry_size times the manifest's total element count.
C13_TemplateAdvancesBindingAndOffset ==
    template.op = "FillDescriptorUpdateTemplateEntries" =>
        /\ template.binding_after =
               template.binding + Len(Declared(template.entries))
        /\ template.offset_after =
               template.offset + entry_size * TotalElements(template.entries)

\* the bindings a template entry writes, each with the entry's kind: an
\* entry of samplers writes the array at its own binding, an entry of another
\* kind writes descriptorCount consecutive bindings
Covered(entry) ==
    IF entry.descriptorType = eCombinedImageSampler
    THEN {<<entry.dstBinding, entry.descriptorType>>}
    ELSE {<<entry.dstBinding + k, entry.descriptorType>> :
              k \in 0 .. (entry.descriptorCount - 1)}

\* the bytes of the flat buffer a template entry reads
ByteRange(entry) ==
    entry.offset .. (entry.offset + entry.descriptorCount * entry.stride - 1)

\* the template entries of one kind, in order
OfKind(template_entries, kind) ==
    SelectSeq(template_entries, LAMBDA e : e.descriptorType = kind)

\* C14: the template entries mirror the layout FillDescriptorLayout builds
\* from the same manifest and the same starting binding index: they cover
\* exactly the layout's bindings, kind by kind; a sampler has one entry of
\* its array size at its own binding; a texel buffer has its own entry of
\* count 1, the entries entry_size bytes apart; every other kind has one
\* entry for all its resources, none when it has no resource; the byte
\* ranges of the entries do not overlap.
C14_TemplateMirrorsLayout ==
    template.op = "FillDescriptorUpdateTemplateEntries" =>
        LET e == template.entries
            te == template.template_entries
            lay == FillDescriptorLayout(e, << >>, VertexB, template.binding).bindings
            texels == OfKind(te, eUniformTexelBuffer)
            samplers == OfKind(te, eCombinedImageSampler)
        IN  /\ UNION {Covered(te[i]) : i \in 1 .. Len(te)}
                   = {<<lay[i].binding, lay[i].descriptor_type>> : i \in 1 .. Len(lay)}
            /\ Len(samplers) = Len(e.samplers)
            /\ \A i \in 1 .. Len(samplers) :
                   samplers[i].descriptorCount = e.samplers[i]
            /\ Len(texels) = Len(e.texel_buffers)
            /\ \A i \in 1 .. Len(texels) :
                   /\ texels[i].descriptorCount = 1
                   /\ i > 1 => texels[i].offset = texels[i - 1].offset + entry_size
                   /\ i > 1 => texels[i].dstBinding = texels[i - 1].dstBinding + 1
            /\ Len(OfKind(te, eUniformBuffer)) = IF Len(e.const_buffers) > 0 THEN 1 ELSE 0
            /\ Len(OfKind(te, eStorageBuffer)) = IF Len(e.global_buffers) > 0 THEN 1 ELSE 0
            /\ Len(OfKind(te, eStorageImage)) = IF Len(e.images) > 0 THEN 1 ELSE 0
            /\ \A i, j \in 1 .. Len(te) :
                   i # j => ByteRange(te[i]) \cap ByteRange(te[j]) = {}

\* program index p uses stage slot p - 1, VertexA the slot of VertexB
StageOfProgram(p) == IF p = VertexA THEN 0 ELSE p - 1

\* C16: every stage slot is assigned at most once, by a program p with
\* stage (p == 0 ? 0 : p - 1); every enabled program is processed, except
\* VertexB when VertexA is enabled: then the vertex slot is VertexA's and the
\* vertex stage contributes its bindings once.
C16_StageSlotsAssignedOnce ==
    decompiled.op = "DecompileShaders" =>
        LET r == decompiled.regs
            w == decompiled.written
            vertex == SelectSeq(decompiled.bindings,
                                LAMBDA b : b.stage_flags = ShaderStage(0))
        IN  /\ \A i, j \in 1 .. Len(w) : i # j => w[i] # w[j]
            /\ \A stage \in 1 .. MaxShaderStage :
                   LET shader == decompiled.program[stage]
                   IN  IF \E p \in Contributing(r) : StageOfProgram(p) = stage - 1
                       THEN /\ shader.index \in Contributing(r)
                            /\ StageOfProgram(shader.index) = stage - 1
                            /\ shader.entries = decompiled.entries_of[shader.index + 1]
                       ELSE shader = NoSPIRVShader
            /\ r[VertexA + 1] # 0 =>
                   /\ decompiled.program[1].index = VertexA
                   /\ Len(vertex) = Len(Declared(decompiled.entries_of[VertexA + 1]))

\* VertexA, VertexB and Fragment are enabled, the units of all three declare
\* resources: the vertex slot holds VertexA and the fragment slot is filled
C16_Witness ==
    /\ decompiled.op = "DecompileShaders"
    /\ decompiled.regs = <<1, 1, 0, 0, 0, 1>>
    /\ \A p \in {VertexA, VertexB, Fragment} :
           Len(Declared(decompiled.entries_of[p + 1])) > 0
    /\ decompiled.program[1].index = VertexA
    /\ decompiled.program[5].index = Fragment
    /\ decompiled.written = <<0, 4>>

(***************************************************************************)
(* GetShaderCode                                                           *)
(***************************************************************************)
\* VideoCommon::Shader::MAX_PROGRAM_LENGTH (0x1000 words), scaled to the
\* longest buffer of the model
MAX_PROGRAM_LENGTH == StartOffset(FALSE) + MaxTail

\* memory_manager.ReadBlockUnsafe(gpu_addr, program_code.data(), size): the
\* guest memory at gpu_addr holds the words of memory followed by filler
ReadBlockUnsafe(memory, filler, size) ==
    [i \in 1 .. size |-> IF i <= Len(memory) THEN memory[i] ELSE filler]

\* a null host pointer
NullHostPtr == 0

\* GetShaderCode(memory_manager, gpu_addr, host_ptr, is_compute).  The result
\* holds the buffer as it is before the function returns or resizes it and
\* the returned code.
GetShaderCode(memory, filler, host_ptr, compute) ==
    IF host_ptr = NullHostPtr
    THEN \* ASSERT_OR_EXECUTE: std::fill and return program_code
         LET zeros == [i \in 1 .. MAX_PROGRAM_LENGTH |-> ZeroWord]
         IN  [buffer |-> zeros, program_code |-> zeros]
    ELSE LET read == ReadBlockUnsafe(memory, filler, MAX_PROGRAM_LENGTH)
         IN  [buffer |-> read,
              program_code |-> SubSeq(read, 1, CalculateProgramSize(read, compute))]

(***************************************************************************)
(* CodeSpec: GetShaderCode on bounded guest memory                         *)
(***************************************************************************)
\* the words guest memory is made of
CodeWords == {ZeroWord, self_jumping_branch, OnlyBit23}

\* the call GetShaderCode(memory_manager, gpu_addr, host_ptr, is_compute),
\* guest memory holding program followed by filler
GetShaderCodeCall(host_ptr, filler) ==
    /\ size_pc = "build"
    /\ LET res == GetShaderCode(program, filler, host_ptr, is_compute)
       IN  /\ block' = res.buffer
           /\ program_code' = res.program_code
    /\ code_host_ptr' = host_ptr
    /\ size_pc' = "fetched"
    /\ UNCHANGED <<program, is_compute, size_result, cacheVars, descVars>>

CodeNext ==
    \/ \E w \in CodeWords : AppendWord(w)
    \/ \E host_ptr \in {NullHostPtr, 1}, filler \in CodeWords :
           GetShaderCodeCall(host_ptr, filler)

CodeSpec == SizeInit /\ [][CodeNext]_vars

\* C15: the code GetShaderCode returns has the length CalculateProgramSize
\* gives for the fetched buffer, also when the host pointer is null and the
\* buffer is zero-filled.
C15_CodeTrimmed ==
    size_pc = "fetched" =>
        Len(program_code) = CalculateProgramSize(block, is_compute)

(***************************************************************************)
(* Properties of Unregister's registry removal and of the memoized slot    *)
(***************************************************************************)
\* some registered unit is no longer registered after the step
RegistryRemoval == \E u \in RegisteredShaders : u \notin RegisteredShaders'

\* no cached pipeline is keyed by the address of Unregister's argument
Purged ==
    /\ \A k \in DOMAIN graphics_cache : ~ReferencesShader(k, invalidated_addr)
    /\ \A k \in DOMAIN compute_cache : k.shader # invalidated_addr

\* C17: during Unregister(shader) the unit stays registered until both
\* pipeline maps hold no entry keyed by its address; the step that returns
\* removes it from the registry, whether or not a pipeline referenced it, and
\* no other step removes a unit.
C17_RegistryRemovalLast ==
    /\ [](pc # "idle" => /\ shader_arg \in RegisteredShaders
                         /\ TryGet(map_cache, shader_arg.host_ptr) = shader_arg)
    /\ [][RegistryRemoval => /\ pc = "unregister"
                             /\ pc' = "idle"
                             /\ Purged
                             /\ RegisteredShaders' = RegisteredShaders \ {shader_arg}]_vars
    /\ [][(pc # "idle" /\ pc' = "idle") =>
              /\ shader_arg \in RegisteredShaders
              /\ shader_arg \notin RegisteredShaders']_vars

\* Unregister has purged entries from both maps, has called Finish once and
\* is about to remove the unit, which is still registered
C17_Witness ==
    /\ pc = "unregister"
    /\ DOMAIN graphics_cache # DOMAIN pre_graphics_cache
    /\ DOMAIN compute_cache # DOMAIN pre_compute_cache
    /\ finish_calls = 1
    /\ shader_arg \in RegisteredShaders

\* C19: whenever last_graphics_pipeline is non-null, graphics_cache contains
\* last_graphics_key and maps it to exactly that pipeline.
C19_MemoConsistent ==
    last_graphics_pipeline # NullPipeline =>
        /\ last_graphics_key \in DOMAIN graphics_cache
        /\ graphics_cache[last_graphics_key].id = last_graphics_pipeline

(***************************************************************************)
(* AliasSpec: the cache when two GPU addresses are mappings of the same    *)
(* host memory and nothing throws                                          *)
(***************************************************************************)
\* compute keys whose shader addresses 2 and 3 resolve to one host pointer
AliasComputeKeys ==
    { ComputeKey(2, <<1, 1, 1>>, 0), ComputeKey(3, <<1, 1, 1>>, 0) }

AliasNext ==
    \/ \E r \in RegConfigs : GetShaders(r)
    \/ \E r \in RegConfigs, fixed_state \in FixedStates :
           GetGraphicsPipeline(r, fixed_state, "ok")
    \/ \E key \in AliasComputeKeys : GetComputePipeline(key, "ok")
    \/ \E shader \in RegisteredShaders : UnregisterBegin(shader)
    \/ GraphicsLoop
    \/ GraphicsErase
    \/ ComputeLoop
    \/ ComputeErase
    \/ UnregisterEnd

AliasSpec == Init /\ [][AliasNext]_vars

\* a unit is registered for the memory GPU address addr resolves to
HasRegisteredUnit(addr) == TryGet(map_cache, GetPointer(addr)) # NullShader

\* C18: between calls no cached pipeline is stale: the shader address of
\* every compute key and every non-zero stage address of every graphics key
\* belongs to a registered unit.
C18_NoStalePipeline ==
    pc = "idle" =>
        /\ \A k \in DOMAIN compute_cache : HasRegisteredUnit(k.shader)
        /\ \A k \in DOMAIN graphics_cache :
               \A i \in 1 .. MaxShaderProgram :
                   k.shaders[i] # 0 => HasRegisteredUnit(k.shaders[i])

====
